---- MODULE Spec2Model ----
(***************************************************************************)
(* A model of the time-series web application:                             *)
(*   src/ts_functions.py  clear_old_files, TimeSeriesPredictions,          *)
(*                        TimeSeriesGraphs                                 *)
(*   src/app.py           upload_file, process_file, create_sample         *)
(*                                                                         *)
(* The statistical libraries (statsmodels, pandas, matplotlib) are outside *)
(* the repository: a call into them either returns or raises, and which of *)
(* the two happens is chosen nondeterministically.  What the repository's  *)
(* own code does with the result (the split arithmetic, the order floor,   *)
(* the try/except chain, the figure and file bookkeeping, the routes'      *)
(* except clauses) is modelled statement by statement.                     *)
(*                                                                         *)
(* Three specifications:                                                   *)
(*   SpecFit       one call of fit_tsmodels, one statement group per step  *)
(*   Spec          the request handlers, one request at a time             *)
(*   SpecThreaded  the request handlers, two requests interleaved          *)
(***************************************************************************)
EXTENDS Integers, Sequences, FiniteSets, TLC

VARIABLES
    call,       \* the locals of the fit_tsmodels call under study (SpecFit)
    threaded,   \* whether the host serves requests on concurrent threads
    started,    \* number of requests accepted so far
    figs,       \* matplotlib.pyplot's global figure registry: the open
                \* figures and which of them is the current one
    files,      \* the files in static/files/
    pc,         \* per handler thread: position in the handler
    req,        \* per handler thread: the request (route, run id, len(data))
    results,    \* per handler thread: predictions.results/.sample, or NoResults
    artifacts,  \* per handler thread: the names returned by the plot_* calls
    exc,        \* per handler thread: the exception in flight, or NoExc
    outcome     \* per handler thread: what the client got, or NoOutcome

vars == <<call, threaded, started, figs, files, pc, req, results, artifacts,
          exc, outcome>>

webvars == <<threaded, started, figs, files, pc, req, results, artifacts,
             exc, outcome>>

(***************************************************************************)
(* Bounds of the model.                                                    *)
(***************************************************************************)
MinLen == 20
MaxLen == 23
MaxRequests == 2

\* Series lengths fit_tsmodels is studied on: the lengths around the
\* small-sample boundary, the 30-observation series of the spec's scenario
\* A, and the lengths around those whose int(n * ratio) equals the
\* placeholder index.
SeriesLengths == (MinLen..MaxLen) \cup {30} \cup {166, 167, 168, 169}

\* Series lengths the clients submit: the lengths around the small-sample
\* boundary.
WebLengths == MinLen..MaxLen

\* The length submitted when two requests are interleaved: what the
\* interleaving does to the figures and files does not depend on it.
ThreadedLengths == {MaxLen}

Threads == {"t1", "t2"}

(***************************************************************************)
(* Program constants.                                                      *)
(***************************************************************************)
RatioTenths == 6            \* ratio=0.6
PlaceholderPeriods == 100   \* pd.date_range("2020-01-01", periods=100)
TailRows == 14              \* self.results.tail(14)
MinObservations == 21       \* if len(data) <= 21
MaxAr == 4                  \* arma_order_select_ic: max_ar default
MaxMa == 2                  \* arma_order_select_ic: max_ma default

NoExc == [kind |-> "none", where |-> "none"]
NoTable == [rows |-> 0, columns |-> <<>>]
NoResults == [rows |-> 0, columns |-> <<>>, sample |-> 0]
NoOrder == <<0, 0>>
NoFig == [owner |-> 0, chart |-> "none"]
NoFigs == [open |-> {}, current |-> NoFig]
NoModel == [kind |-> "none", order |-> NoOrder, rows |-> 0, index |-> "none"]

\* The exceptions a library call may raise, by what the routes' except
\* clauses make of them: ValueError, ZeroDivisionError, and anything else.
ExcKinds == {"ValueError", "ZeroDivisionError", "Other"}
Outcomes == {"ok"} \cup ExcKinds

Min(a, b) == IF a <= b THEN a ELSE b

(***************************************************************************)
(* fit_tsmodels (src/ts_functions.py:31-71).                               *)
(*                                                                         *)
(* The locals of a call are a record:                                      *)
(*   pc          the statement group to run next: "ar", "tier1", "tier2",  *)
(*               "tier3", "es", "assemble"; "returned" or "raised" at the  *)
(*               end; "idle" when no call is under study                   *)
(*   n           len(data)                                                 *)
(*   startPos    the position of start in data.index; end is position n-1  *)
(*   attempts    the ARMA tiers entered so far, each with how it ended     *)
(*   arma_order  the order tier 1 fits with, once order selection returned *)
(*   model1, model2, model3   the three model columns                      *)
(*   table       the returned DataFrame (row count, column names)          *)
(*   exc         the exception that left the function                      *)
(***************************************************************************)

\* int(n * ratio) with the two factors swapped for (1 - ratio).
StartPosOfRatio(n) == (n * RatioTenths) \div 10

\* int(n * (1 - ratio)): for ratio = 0.6 and every n up to 5000 the float
\* product truncates to the same integer as floor(4n / 10).
StartPos(n) == (n * (10 - RatioTenths)) \div 10

\* int(n * ratio), the length of the contingency column; the float product
\* truncates to floor(6n / 10) likewise.
ContingencyLen(n) == (n * RatioTenths) \div 10

\* The number of timestamps in [start, end] = index[startPos .. n-1].
RangeRows(n, startPos) == n - startPos

TableColumns == <<"Actual Data", "AR", "ARMA", "Exponential Smoothing">>

\* A Series returned by .predict(start, end): one row per timestamp of
\* [start, end].
Prediction(c, order) ==
    [kind |-> "prediction", order |-> order,
     rows |-> RangeRows(c.n, c.startPos), index |-> "eval"]

NewCall(n) ==
    [pc |-> "ar", n |-> n, startPos |-> StartPos(n), attempts |-> <<>>,
     arma_order |-> NoOrder, model1 |-> NoModel, model2 |-> NoModel,
     model3 |-> NoModel, table |-> NoTable, exc |-> NoExc]

IdleCall == [NewCall(0) EXCEPT !.pc = "idle"]

Raise(c, kind, where) ==
    [c EXCEPT !.pc = "raised", !.exc = [kind |-> kind, where |-> where]]

Attempt(c, tier, out) ==
    [c EXCEPT !.attempts = Append(@, [tier |-> tier, out |-> out])]

\* What AutoReg(data, lags=10).fit() can do on n observations, as
\* create_sample's except clauses record it: below 21 the sample is too
\* small (ValueError), with 21 the fit divides by zero; from 22 on it
\* returns or raises.
ARFitOutcomes(n) ==
    IF n < MinObservations THEN {"ValueError"}
    ELSE IF n = MinObservations THEN {"ZeroDivisionError"}
    ELSE Outcomes

\* model1 = sm.tsa.AutoReg(data, lags=10).fit().predict(start, end)
StepAR(c, out) ==
    IF c.pc # "ar" THEN c
    ELSE IF out = "ok"
         THEN [c EXCEPT !.pc = "tier1", !.model1 = Prediction(c, NoOrder)]
         ELSE Raise(c, out, "ar")

\* What arma_order_select_ic can do: return a bic_min_order in
\* (0..max_ar) x (0..max_ma), or raise.
ICOutcomes ==
    {[out |-> "ok", order |-> <<p, q>>] : p \in 0..MaxAr, q \in 0..MaxMa}
    \cup {[out |-> e, order |-> NoOrder] : e \in ExcKinds}

\* Python's order on 2-tuples.
TupleLess(a, b) == a[1] < b[1] \/ (a[1] = b[1] /\ a[2] < b[2])

\* Python's max(a, b): b when b > a, else a.
PyMax(a, b) == IF TupleLess(a, b) THEN b ELSE a

\* A tier-1 handler that falls through to the contingency directly.
StepTier1SkipsTier2(c, ic, out) ==
    IF c.pc # "tier1" THEN c
    ELSE IF ic.out # "ok"
         THEN IF ic.out = "ValueError"
              THEN [Attempt(c, 1, ic.out) EXCEPT !.pc = "tier3"]
              ELSE Raise(Attempt(c, 1, ic.out), ic.out, "tier1")
         ELSE LET d == [c EXCEPT !.arma_order = PyMax(ic.order, <<1, 1>>)]
              IN  IF out = "ok"
                  THEN [Attempt(d, 1, out) EXCEPT
                            !.pc = "es",
                            !.model2 = Prediction(c, d.arma_order)]
                  ELSE IF out = "ValueError"
                       THEN [Attempt(d, 1, out) EXCEPT !.pc = "tier3"]
                       ELSE Raise(Attempt(d, 1, out), out, "tier1")

\* The body of the outer try: order selection, the floor, the fit; and the
\* outer except ValueError, which hands over to tier 2.
StepTier1(c, ic, out) ==
    IF c.pc # "tier1" THEN c
    ELSE IF ic.out # "ok"
         THEN IF ic.out = "ValueError"
              THEN [Attempt(c, 1, ic.out) EXCEPT !.pc = "tier2"]
              ELSE Raise(Attempt(c, 1, ic.out), ic.out, "tier1")
         ELSE LET d == [c EXCEPT !.arma_order = PyMax(ic.order, <<1, 1>>)]
              IN  IF out = "ok"
                  THEN [Attempt(d, 1, out) EXCEPT
                            !.pc = "es",
                            !.model2 = Prediction(c, d.arma_order)]
                  ELSE IF out = "ValueError"
                       THEN [Attempt(d, 1, out) EXCEPT !.pc = "tier2"]
                       ELSE Raise(Attempt(d, 1, out), out, "tier1")

\* The body of the inner try: the ARMA(1, 1) fit; and the inner except
\* ValueError, which hands over to the contingency.
StepTier2(c, out) ==
    IF c.pc # "tier2" THEN c
    ELSE IF out = "ok"
         THEN [Attempt(c, 2, out) EXCEPT
                   !.pc = "es", !.model2 = Prediction(c, <<1, 1>>)]
         ELSE IF out = "ValueError"
              THEN [Attempt(c, 2, out) EXCEPT !.pc = "tier3"]
              ELSE Raise(Attempt(c, 2, out), out, "tier2")

\* pd.DataFrame({"X": [nan] * int(n * ratio)}, index=date_range(periods=100)):
\* pandas raises ValueError when a list's length differs from the index's.
\* The inner except clause does not cover its own body, so the error leaves
\* fit_tsmodels.
StepTier3(c) ==
    IF c.pc # "tier3" THEN c
    ELSE IF ContingencyLen(c.n) = PlaceholderPeriods
         THEN [Attempt(c, 3, "ok") EXCEPT
                   !.pc = "es",
                   !.model2 = [kind |-> "contingency", order |-> NoOrder,
                               rows |-> ContingencyLen(c.n),
                               index |-> "placeholder"]]
         ELSE Raise(Attempt(c, 3, "ValueError"), "ValueError", "tier3")

\* model3 = sm.tsa.ExponentialSmoothing(...).fit().predict(start, end)
StepES(c, out) ==
    IF c.pc # "es" THEN c
    ELSE IF out = "ok"
         THEN [c EXCEPT !.pc = "assemble", !.model3 = Prediction(c, NoOrder)]
         ELSE Raise(c, out, "es")

\* What pd.DataFrame({...}) can do with the columns: Series over [start, end]
\* align on that index; a DataFrame as a column value (the contingency) is
\* either refused or broadcast over the Series' index, by pandas version.
AssembleOutcomes(c) ==
    IF c.model2.kind = "contingency" THEN {"ok", "ValueError"} ELSE {"ok"}

\* original = data.loc[start:]; return pd.DataFrame({'Actual Data': ...})
StepAssemble(c, out) ==
    IF c.pc # "assemble" THEN c
    ELSE IF out = "ok"
         THEN [c EXCEPT !.pc = "returned",
                        !.table = [rows |-> RangeRows(c.n, c.startPos),
                                   columns |-> TableColumns]]
         ELSE Raise(c, out, "assemble")

\* One whole call, given what each library call does.
LibOutcomes(n) ==
    [ar : ARFitOutcomes(n), ic : ICOutcomes, fit1 : Outcomes, fit2 : Outcomes,
     es : Outcomes, asm : {"ok", "ValueError"}]

RunFit(n, lib) ==
    StepAssemble(
        StepES(
            StepTier3(
                StepTier2(
                    StepTier1(StepAR(NewCall(n), lib.ar), lib.ic, lib.fit1),
                    lib.fit2)),
            lib.es),
        lib.asm)

\* How a call on n observations can end: the table it returns, or the
\* exception that leaves it.
FitEnds[n \in SeriesLengths] ==
    {[table |-> RunFit(n, lib).table, kind |-> RunFit(n, lib).exc.kind] :
        lib \in LibOutcomes(n)}

(***************************************************************************)
(* SpecFit: one call of fit_tsmodels, a statement group at a time.         *)
(***************************************************************************)
WebIdle ==
    /\ threaded = FALSE
    /\ started = 0
    /\ figs = NoFigs
    /\ files = {}
    /\ pc = [t \in Threads |-> "idle"]
    /\ req = [t \in Threads |-> [route |-> "none", run |-> 0, n |-> 0]]
    /\ results = [t \in Threads |-> NoResults]
    /\ artifacts = [t \in Threads |-> <<>>]
    /\ exc = [t \in Threads |-> NoExc]
    /\ outcome = [t \in Threads |-> "none"]

InitFit ==
    /\ call \in {NewCall(n) : n \in SeriesLengths}
    /\ WebIdle

FitAR ==
    /\ call.pc = "ar"
    /\ \E out \in ARFitOutcomes(call.n) : call' = StepAR(call, out)
    /\ UNCHANGED webvars

FitTier1 ==
    /\ call.pc = "tier1"
    /\ \E ic \in ICOutcomes, out \in Outcomes : call' = StepTier1(call, ic, out)
    /\ UNCHANGED webvars

FitTier2 ==
    /\ call.pc = "tier2"
    /\ \E out \in Outcomes : call' = StepTier2(call, out)
    /\ UNCHANGED webvars

FitTier3 ==
    /\ call.pc = "tier3"
    /\ call' = StepTier3(call)
    /\ UNCHANGED webvars

FitES ==
    /\ call.pc = "es"
    /\ \E out \in Outcomes : call' = StepES(call, out)
    /\ UNCHANGED webvars

FitAssemble ==
    /\ call.pc = "assemble"
    /\ \E out \in AssembleOutcomes(call) : call' = StepAssemble(call, out)
    /\ UNCHANGED webvars

NextFit == FitAR \/ FitTier1 \/ FitTier2 \/ FitTier3 \/ FitES \/ FitAssemble

SpecFit == InitFit /\ [][NextFit]_vars

(***************************************************************************)
(* The request handlers (src/app.py) and TimeSeriesGraphs                  *)
(* (src/ts_functions.py:74-146).                                           *)
(*                                                                         *)
(* A figure is [owner, chart]: the run id of the request whose call opened *)
(* it and the chart it was opened for ("blank" when savefig's gcf() had to *)
(* open one).  A file is [ext, run, chart]: its extension and the request  *)
(* and chart its name was made for; what savefig writes into it is the     *)
(* current figure at that moment.  A handler's locals (results, the        *)
(* TimeSeriesGraphs object) are dropped when it returns or when an         *)
(* exception leaves it.                                                    *)
(***************************************************************************)
NoReq == [route |-> "none", run |-> 0, n |-> 0]

\* glob(filepath + "*." + extension), then os.remove of each match.
clear_old_files(fs, extension) == {f \in fs : f.ext # extension}

\* if len(data) <= 21, with the comparison made strict.
TooSmallStrict(n) == n < MinObservations

\* if len(data) <= 21
TooSmall(n) == n <= MinObservations

\* self.results = fit_tsmodels(data).round(2); self.sample = results.tail(14)
TimeSeriesPredictions(table) ==
    [rows |-> table.rows, columns |-> table.columns,
     sample |-> Min(TailRows, table.rows)]

\* results.iteritems() without the drop of 'Actual Data'.
ModelColumnsKeepActual(columns) == columns

\* results.drop('Actual Data', axis=1).iteritems(): the remaining columns in
\* table order.
ModelColumns(columns) == SelectSeq(columns, LAMBDA m : m # "Actual Data")

\* The charts TimeSeriesGraphs.__init__ draws, in the order of its calls:
\* plot_acf_pacf, plot_line, plot_model_fit (one per model column),
\* plot_seanonal_decomposition.
Charts(res) ==
    <<"acf_pacf", "lineplot">> \o ModelColumns(res.columns) \o <<"seasonal">>

\* plt.figure(): a new figure is registered and becomes the current one.
NewFigure(fs, run, chart) ==
    [open |-> fs.open \cup {[owner |-> run, chart |-> chart]},
     current |-> [owner |-> run, chart |-> chart]]

\* plt.gcf(): the current figure, opening a blank one when none is open.
WithCurrent(fs, run) ==
    IF fs.open = {} THEN NewFigure(fs, run, "blank") ELSE fs

Lengths == IF threaded THEN ThreadedLengths ELSE WebLengths

CanStart(t) ==
    /\ pc[t] = "idle"
    /\ started < MaxRequests
    /\ threaded \/ \A u \in Threads \ {t} : pc[u] \in {"idle", "done"}

NextChart(t) == Charts(results[t])[Len(artifacts[t]) + 1]

\* upload_file (POST, a csv file selected): the old uploads are removed,
\* the file is saved, the client is redirected to process_file.
Upload(t) ==
    /\ CanStart(t)
    /\ \E n \in Lengths :
           req' = [req EXCEPT ![t] = [route |-> "process_file",
                                      run |-> started + 1, n |-> n]]
    /\ started' = started + 1
    /\ files' = clear_old_files(files, "csv")
                \cup {[ext |-> "csv", run |-> started + 1, chart |-> "upload"]}
    /\ pc' = [pc EXCEPT ![t] = "read_csv"]
    /\ UNCHANGED <<call, threaded, figs, results, artifacts, exc, outcome>>

\* create_sample (POST) up to data = pd.Series(y, index=index).
SubmitSample(t) ==
    /\ CanStart(t)
    /\ \E n \in Lengths :
           req' = [req EXCEPT ![t] = [route |-> "create_sample",
                                      run |-> started + 1, n |-> n]]
    /\ started' = started + 1
    /\ pc' = [pc EXCEPT ![t] = "clear_png"]
    /\ UNCHANGED <<call, threaded, figs, files, results, artifacts, exc,
                   outcome>>

\* process_file's try block: read_csv, the length test, and the
\* except ValueError clause.  A missing file is not a ValueError.
ReadCsv(t) ==
    /\ pc[t] = "read_csv"
    /\ IF ~ \E f \in files : f.ext = "csv" /\ f.run = req[t].run
       THEN /\ exc' = [exc EXCEPT ![t] = [kind |-> "Other", where |-> "read"]]
            /\ outcome' = [outcome EXCEPT ![t] = "unhandled"]
            /\ pc' = [pc EXCEPT ![t] = "done"]
            /\ UNCHANGED files
       ELSE \E parse \in {"ok", "ValueError"} :
                IF parse = "ValueError"
                THEN /\ files' = clear_old_files(files, "csv")
                     /\ outcome' = [outcome EXCEPT ![t] = "redirect"]
                     /\ pc' = [pc EXCEPT ![t] = "done"]
                     /\ UNCHANGED exc
                ELSE IF TooSmall(req[t].n)
                     THEN /\ outcome' = [outcome EXCEPT ![t] = "redirect"]
                          /\ pc' = [pc EXCEPT ![t] = "done"]
                          /\ UNCHANGED <<files, exc>>
                     ELSE /\ pc' = [pc EXCEPT ![t] = "clear_png"]
                          /\ UNCHANGED <<files, exc, outcome>>
    /\ UNCHANGED <<call, threaded, started, figs, req, results, artifacts>>

\* clear_old_files("png") in either route.
ClearPng(t) ==
    /\ pc[t] = "clear_png"
    /\ files' = clear_old_files(files, "png")
    /\ pc' = [pc EXCEPT ![t] = "core"]
    /\ UNCHANGED <<call, threaded, started, figs, req, results, artifacts,
                   exc, outcome>>

\* predictions = TimeSeriesPredictions(data)
Core(t) ==
    /\ pc[t] = "core"
    /\ \E e \in FitEnds[req[t].n] :
           IF e.kind = "none"
           THEN /\ results' = [results EXCEPT
                                   ![t] = TimeSeriesPredictions(e.table)]
                /\ pc' = [pc EXCEPT ![t] = "plot_open"]
                /\ UNCHANGED exc
           ELSE /\ exc' = [exc EXCEPT
                               ![t] = [kind |-> e.kind, where |-> "fit"]]
                /\ pc' = [pc EXCEPT ![t] = "raised"]
                /\ UNCHANGED results
    /\ UNCHANGED <<call, threaded, started, figs, files, req, artifacts,
                   outcome>>

\* The first half of a plot_* method (or of one turn of plot_model_fit's
\* loop): the figure is opened and drawn on.  The seasonal decomposition
\* fits STL before its figure is opened; the other charts open the figure
\* first, so a failing draw leaves it open.
PlotOpen(t) ==
    /\ pc[t] = "plot_open"
    /\ \E out \in Outcomes :
           /\ figs' = IF out # "ok" /\ NextChart(t) = "seasonal"
                      THEN figs
                      ELSE NewFigure(figs, req[t].run, NextChart(t))
           /\ IF out = "ok"
              THEN /\ pc' = [pc EXCEPT ![t] = "plot_save"]
                   /\ UNCHANGED <<exc, artifacts>>
              ELSE /\ exc' = [exc EXCEPT
                                  ![t] = [kind |-> out, where |-> "plot"]]
                   /\ artifacts' = [artifacts EXCEPT ![t] = <<>>]
                   /\ pc' = [pc EXCEPT ![t] = "raised"]
    /\ UNCHANGED <<call, threaded, started, files, req, results, outcome>>

\* plt.savefig(name, transparent=True): the current figure is written under
\* the name; the method returns the name.
PlotSave(t) ==
    /\ pc[t] = "plot_save"
    /\ figs' = WithCurrent(figs, req[t].run)
    /\ files' = files \cup {[ext |-> "png", run |-> req[t].run,
                               chart |-> NextChart(t)]}
    /\ artifacts' = [artifacts EXCEPT ![t] = Append(@, NextChart(t))]
    /\ pc' = [pc EXCEPT ![t] =
                  IF Len(artifacts'[t]) = Len(Charts(results[t]))
                  THEN "terminate" ELSE "plot_open"]
    /\ UNCHANGED <<call, threaded, started, req, results, exc, outcome>>

\* terminate: plt.close("all")
terminate(t) ==
    /\ pc[t] = "terminate"
    /\ figs' = NoFigs
    /\ pc' = [pc EXCEPT ![t] = "respond"]
    /\ UNCHANGED <<call, threaded, started, files, req, results, artifacts,
                   exc, outcome>>

\* return render_template("processing_file.html", ...)
Respond(t) ==
    /\ pc[t] = "respond"
    /\ outcome' = [outcome EXCEPT ![t] = "page"]
    /\ results' = [results EXCEPT ![t] = NoResults]
    /\ artifacts' = [artifacts EXCEPT ![t] = <<>>]
    /\ pc' = [pc EXCEPT ![t] = "done"]
    /\ UNCHANGED <<call, threaded, started, figs, files, req, exc>>

\* What becomes of an exception raised by TimeSeriesPredictions or
\* TimeSeriesGraphs: process_file calls them outside any try; create_sample
\* catches ValueError and ZeroDivisionError.
Handled(route, kind) ==
    IF route = "create_sample" /\ kind = "ValueError" THEN "too_small"
    ELSE IF route = "create_sample" /\ kind = "ZeroDivisionError"
         THEN "increase_size"
         ELSE "unhandled"

Handle(t) ==
    /\ pc[t] = "raised"
    /\ outcome' = [outcome EXCEPT ![t] = Handled(req[t].route, exc[t].kind)]
    /\ results' = [results EXCEPT ![t] = NoResults]
    /\ pc' = [pc EXCEPT ![t] = "done"]
    /\ UNCHANGED <<call, threaded, started, figs, files, req, artifacts, exc>>

\* The response has been sent; the thread takes the next request.
Finish(t) ==
    /\ pc[t] = "done"
    /\ pc' = [pc EXCEPT ![t] = "idle"]
    /\ req' = [req EXCEPT ![t] = NoReq]
    /\ exc' = [exc EXCEPT ![t] = NoExc]
    /\ outcome' = [outcome EXCEPT ![t] = "none"]
    /\ UNCHANGED <<call, threaded, started, figs, files, results, artifacts>>

Init ==
    /\ call = IdleCall
    /\ WebIdle

InitThreaded ==
    /\ call = IdleCall
    /\ threaded = TRUE
    /\ started = 0
    /\ figs = NoFigs
    /\ files = {}
    /\ pc = [t \in Threads |-> "idle"]
    /\ req = [t \in Threads |-> NoReq]
    /\ results = [t \in Threads |-> NoResults]
    /\ artifacts = [t \in Threads |-> <<>>]
    /\ exc = [t \in Threads |-> NoExc]
    /\ outcome = [t \in Threads |-> "none"]

Next ==
    \E t \in Threads :
        \/ Upload(t)
        \/ SubmitSample(t)
        \/ ReadCsv(t)
        \/ ClearPng(t)
        \/ Core(t)
        \/ PlotOpen(t)
        \/ PlotSave(t)
        \/ terminate(t)
        \/ Respond(t)
        \/ Handle(t)
        \/ Finish(t)

Spec == Init /\ [][Next]_vars

SpecThreaded == InitThreaded /\ [][Next]_vars

(***************************************************************************)
(* The claims.                                                             *)
(***************************************************************************)

\* The number of timestamps in the evaluation range [start, end] of a series
\* of n observations: the positions from the split point to the last one.
EvalRangeRows(n) == Cardinality({i \in 0..(n - 1) : i >= StartPos(n)})

\* fit_tsmodels ended with every library call other than the ARMA fits
\* having returned, and every ARMA failure of the kind the chain absorbs.
ArmaDecided ==
    \/ call.pc = "returned"
    \/ call.pc = "raised" /\ call.exc.where \in {"tier3", "assemble"}

\* C1: for every series of n >= 22 observations, whichever ARMA tier
\* (selected order, fixed (1,1), all-NaN contingency) supplies the ARMA
\* column, fit_tsmodels returns a table with one row per timestamp of the
\* evaluation range and the columns Actual Data, AR, ARMA, Exponential
\* Smoothing in that order.  (SpecFit)
C1_TableShapeWhicheverTier ==
    (call.n > MinObservations /\ ArmaDecided) =>
        /\ call.pc = "returned"
        /\ call.table.rows = EvalRangeRows(call.n)
        /\ call.table.columns = TableColumns

\* C2: whenever tier 1 and tier 2 both failed, tier 3 builds the all-NaN
\* contingency column of length floor(n * ratio) without raising, for every
\* series length n.  (SpecFit)
C2_ContingencyNeverRaises ==
    Len(call.attempts) = 3 =>
        /\ call.attempts[3].out = "ok"
        /\ call.exc = NoExc \/ call.exc.where # "tier3"
        /\ call.model2.kind = "contingency"
        /\ call.model2.rows = ContingencyLen(call.n)

\* C3: whenever tier-1 order selection succeeds, the order the ARMA model
\* is fitted with has p >= 1 and q >= 1, whatever order the search
\* returned.  (SpecFit)
C3_OrderFloorComponentwise ==
    call.arma_order # NoOrder =>
        call.arma_order[1] >= 1 /\ call.arma_order[2] >= 1

\* C4 as stated: for a 30-observation series the evaluation range, and
\* hence the returned table, has 12 rows (about 40% of the series).
\* (SpecFit)
C4_ThirtyGivesTwelveRows ==
    (call.pc = "returned" /\ call.n = 30) => call.table.rows = 12

\* C4 as amended: with ratio 0.6 the split point is index[floor(0.4 n)], so
\* the evaluation range, and hence the returned table, has ceil(0.6 n) rows
\* (about 60% of the series): 18 rows for a 30-observation series.
\* (SpecFit)
C4_EvalRangeIsRatioShare ==
    call.pc = "returned" =>
        /\ 10 * call.table.rows >= RatioTenths * call.n
        /\ 10 * (call.table.rows - 1) < RatioTenths * call.n
        /\ call.n = 30 => call.table.rows = 18

C4_Witness ==
    call.pc = "returned" /\ call.n = 30 /\ call.table.rows = 18

\* C5: the ARMA tiers are entered strictly in the order 1, 2, 3 and each
\* only after the previous one raised; the contingency column exists only
\* after the tier-2 fit raised; and when tier 1 raised and tier 2 succeeded
\* the ARMA column is the ARMA(1,1) prediction over [start, end], not the
\* all-NaN column.  (SpecFit)
C5_TiersInOrder ==
    /\ \A i \in 1..Len(call.attempts) :
           /\ call.attempts[i].tier = i
           /\ i > 1 => call.attempts[i - 1].out # "ok"
    /\ call.model2.kind = "contingency" =>
           Len(call.attempts) = 3 /\ call.attempts[2].out # "ok"
    /\ (Len(call.attempts) = 2 /\ call.attempts[2].out = "ok") =>
           call.model2 = [kind |-> "prediction", order |-> <<1, 1>>,
                          rows |-> EvalRangeRows(call.n), index |-> "eval"]

C5_Witness ==
    /\ call.pc = "returned"
    /\ Len(call.attempts) = 2
    /\ call.attempts[1].out = "ValueError"
    /\ call.attempts[2].out = "ok"
    /\ call.model2.order = <<1, 1>>

\* A TimeSeriesGraphs render of thread t has ended: it completed, or one of
\* its charts raised.
RenderEnded(t) ==
    \/ pc[t] = "respond"
    \/ pc[t] \in {"raised", "done"} /\ exc[t].where = "plot"
    \/ pc[t] = "done" /\ outcome[t] = "page"

\* C6: after a render ends, whether it completed or a chart raised part-way
\* through, no figure opened during that render remains open.  (Spec)
C6_NoFigureLeftOpen ==
    \A t \in Threads :
        RenderEnded(t) => \A f \in figs.open : f.owner # req[t].run

BatchOrder ==
    <<"acf_pacf", "lineplot", "AR", "ARMA", "Exponential Smoothing",
      "seasonal">>

\* C8: for a successful fit, the artifacts are produced in the order
\* ACF/PACF, line plot, one overlay per model column in table column order,
\* seasonal decomposition, and a completed render has produced exactly
\* 3 + (number of table columns - 1) of them.  (Spec)
C8_BatchCompleteInOrder ==
    \A t \in Threads :
        /\ Len(artifacts[t]) <= Len(BatchOrder)
        /\ \A i \in 1..Len(artifacts[t]) : artifacts[t][i] = BatchOrder[i]
        /\ pc[t] \in {"terminate", "respond"} =>
               Len(artifacts[t]) = 3 + (Len(results[t].columns) - 1)

C8_Witness ==
    \E t \in Threads :
        /\ pc[t] = "respond"
        /\ artifacts[t] = BatchOrder
        /\ Len(results[t].columns) = 4

\* Thread t is between the start of its render and its response.
Rendering(t) == pc[t] \in {"plot_open", "plot_save", "terminate", "respond"}

\* C9: with two requests interleaved, the figure a request is to save under
\* an artifact name is the figure that request opened for that artifact
\* (open, and the current one), and no artifact a request has saved is
\* deleted while the request is still in flight.  (SpecThreaded)
C9_PlottingIsolated ==
    \A t \in Threads :
        /\ pc[t] = "plot_save" =>
               /\ [owner |-> req[t].run, chart |-> NextChart(t)] \in figs.open
               /\ figs.current = [owner |-> req[t].run, chart |-> NextChart(t)]
        /\ Rendering(t) =>
               \A i \in 1..Len(artifacts[t]) :
                   [ext |-> "png", run |-> req[t].run,
                    chart |-> artifacts[t][i]] \in files

\* C10: on both routes that invoke the core, every error raised by the fit
\* or by the render ends the request with a 'try a different/larger sample'
\* message, never with an exception leaving the handler.  (Spec)
C10_CoreErrorsGetMessage ==
    \A t \in Threads :
        (pc[t] = "done" /\ exc[t].where \in {"fit", "plot"}) =>
            outcome[t] \in {"too_small", "increase_size"}

====
